---- MODULE Spec2Model ----
(***************************************************************************)
(* ARX language support (src/extension.ts): the c_map descriptor loader,   *)
(* the directory watcher and the three query providers.                    *)
(*                                                                         *)
(* A JavaScript string is a sequence of one-character strings, so that     *)
(* split, slice, endsWith and the regular expressions are computed         *)
(* character by character.                                                 *)
(***************************************************************************)
EXTENDS Integers, Sequences, FiniteSets, TLC

VARIABLES
    rootOpen,      \* vscode.workspace.workspaceFolders has a first folder
    dirExists,     \* <root>/c_map exists on disk
    files,         \* entries of <root>/c_map: name -> content, or Unreadable
    libFunctions,  \* the module-level Map<libraryName, LibFunction[]>
    watching,      \* an fs.watch watcher is attached to the directory
    events,        \* filenames of watcher notifications not yet delivered
    activation,    \* "none", or how activate() left the extension
    threw,         \* the last loadMapFiles() call ended with an exception
    fresh,         \* the directory is as the last loadMapFiles() call saw it
    dropped,       \* that call removed a library from the registry
    query,         \* the last editor query (provider, line, cursor)
    answer         \* what the provider returned for it, under the provider's field

vars == <<rootOpen, dirExists, files, libFunctions, watching, events,
          activation, threw, fresh, dropped, query, answer>>

---------------------------------------------------------------------------
(* Character classes of the regular expressions. *)

Lower == {"a","b","c","d","e","f","g","h","i","j","k","l","m",
          "n","o","p","q","r","s","t","u","v","w","x","y","z"}
Upper == {"A","B","C","D","E","F","G","H","I","J","K","L","M",
          "N","O","P","Q","R","S","T","U","V","W","X","Y","Z"}
Digit == {"0","1","2","3","4","5","6","7","8","9"}

\* \w
WordChars == Lower \cup Upper \cup Digit \cup {"_"}

\* \s (the ASCII part)
SpaceChars == {" ", "\t", "\n", "\r", "\f"}

---------------------------------------------------------------------------
(* String primitives. *)

Min(a, b) == IF a < b THEN a ELSE b

\* s[i], or "" past the end of s
At(s, i) == IF i >= 1 /\ i <= Len(s) THEN s[i] ELSE ""

\* p occurs in s starting at index i
OccursAt(s, p, i) ==
    /\ i >= 1
    /\ i + Len(p) - 1 <= Len(s)
    /\ \A k \in 1..Len(p) : s[i + k - 1] = p[k]

\* String.prototype.endsWith
EndsWith(s, p) == Len(p) <= Len(s) /\ OccursAt(s, p, Len(s) - Len(p) + 1)

\* String.prototype.startsWith
StartsWith(s, p) == OccursAt(s, p, 1)

\* String.prototype.slice(0, n) for 0 <= n
Slice0(s, n) == SubSeq(s, 1, Min(n, Len(s)))

\* the index of the first occurrence of p in s at or after from; 0 if none
IndexFrom(s, p, from) ==
    LET hits == {i \in from..(Len(s) - Len(p) + 1) : OccursAt(s, p, i)}
    IN  IF hits = {} THEN 0 ELSE CHOOSE i \in hits : \A j \in hits : i <= j

\* String.prototype.split(sep) for a non-empty separator
RECURSIVE Split(_, _)
Split(s, sep) ==
    LET i == IndexFrom(s, sep, 1)
    IN  IF i = 0 THEN <<s>>
        ELSE <<SubSeq(s, 1, i - 1)>> \o Split(SubSeq(s, i + Len(sep), Len(s)), sep)

\* Array.prototype.join(sep)
RECURSIVE Join(_, _)
Join(parts, sep) ==
    IF parts = <<>> THEN <<>>
    ELSE IF Len(parts) = 1 THEN parts[1]
    ELSE parts[1] \o sep \o Join(Tail(parts), sep)

\* String.prototype.trim
RECURSIVE Trim(_)
Trim(s) ==
    IF s = <<>> THEN s
    ELSE IF s[1] \in SpaceChars THEN Trim(Tail(s))
    ELSE IF s[Len(s)] \in SpaceChars THEN Trim(SubSeq(s, 1, Len(s) - 1))
    ELSE s

\* a greedy run of class cls from index i: the index after its last character
RunEnd(s, i, cls) ==
    IF i > Len(s) THEN i
    ELSE CHOOSE j \in i..(Len(s) + 1) :
            /\ \A k \in i..(j - 1) : s[k] \in cls
            /\ At(s, j) \notin cls

---------------------------------------------------------------------------
(* Literals of the source. *)

\* "[functions]"
Marker == <<"[","f","u","n","c","t","i","o","n","s","]">>

\* ".map"
Ext == <<".","m","a","p">>

\* "\n"
NL == <<"\n">>

\* "using"
Using == <<"u","s","i","n","g">>

\* ARX_KEYWORDS
ARX_KEYWORDS == <<
    <<"i","f">>, <<"e","l","s","e">>, <<"w","h","i","l","e">>, <<"f","o","r">>,
    <<"b","r","e","a","k">>, <<"c","o","n","t","i","n","u","e">>, <<"i","n">>,
    <<"l","i","s","t">>, <<"s","t","r","i","n","g">>, <<"i","n","t">>,
    <<"f","l","o","a","t">>, <<"b","o","o","l">>, <<"a","n","d">>, <<"o","r">>,
    <<"n","o","t">>, <<"r","e","t","u","r","n">>, <<"c","l","a","s","s">>,
    <<"u","s","i","n","g">>, <<"t","h","i","s">>, <<"v","o","i","d">>,
    <<"a","n","y">>, <<"t","r","u","e">>, <<"f","a","l","s","e">>,
    <<"_","i","n","i","t">>, <<"_","e","x","e","c">> >>

---------------------------------------------------------------------------
(* The descriptor parser: the body of the loop of loadMapFiles. *)

\* (?:,\w+)* from index i: the index after the last repetition
RECURSIVE TypesEnd(_, _)
TypesEnd(line, i) ==
    IF At(line, i) = "," /\ At(line, i + 1) \in WordChars
    THEN TypesEnd(line, RunEnd(line, i + 1, WordChars))
    ELSE i

NoMatch == [matched |-> FALSE]

\* line.match(/^(\w+:\w+(?:,\w+)*)\s*=\s*(\w+)\s*>\s*(\w+)/): every class is
\* disjoint from the literal after it, so the greedy scan never backtracks
DeclMatch(line) ==
    LET n1 == RunEnd(line, 1, WordChars)        \* \w+
        t1 == RunEnd(line, n1 + 1, WordChars)   \* :\w+
        a  == TypesEnd(line, t1)                \* (?:,\w+)*
        e  == RunEnd(line, a, SpaceChars)       \* \s*
        b1 == RunEnd(line, e + 1, SpaceChars)   \* =\s*
        b2 == RunEnd(line, b1, WordChars)       \* (\w+)
        g  == RunEnd(line, b2, SpaceChars)      \* \s*
        r1 == RunEnd(line, g + 1, SpaceChars)   \* >\s*
        r2 == RunEnd(line, r1, WordChars)       \* (\w+)
    IN  IF /\ n1 > 1
           /\ At(line, n1) = ":"
           /\ t1 > n1 + 1
           /\ At(line, e) = "="
           /\ b2 > b1
           /\ At(line, g) = ">"
           /\ r2 > r1
        THEN [matched |-> TRUE,
              argString |-> SubSeq(line, 1, a - 1),
              alias |-> SubSeq(line, b1, b2 - 1),
              returnType |-> SubSeq(line, r1, r2 - 1)]
        ELSE NoMatch

\* const [name, ...args] = argString.split(":"); the pushed LibFunction
ToLibFunction(m) ==
    LET parts == Split(m.argString, <<":">>)
    IN  [name |-> parts[1],
         argType |-> Join(Tail(parts), <<":">>),
         alias |-> m.alias,
         returnType |-> m.returnType]

\* for (const line of funcSection.split("\n")) { ... functions.push(...) }
RECURSIVE ParseLines(_)
ParseLines(lines) ==
    IF lines = <<>> THEN <<>>
    ELSE LET m == DeclMatch(Head(lines))
         IN  (IF m.matched THEN <<ToLibFunction(m)>> ELSE <<>>)
                 \o ParseLines(Tail(lines))

\* content.split("[functions]")[1], with undefined read as ""
FuncSection(content) ==
    LET parts == Split(content, Marker)
    IN  IF Len(parts) >= 2 THEN parts[2] ELSE <<>>

\* as SkipFile, never skipping
SkipFileNever(funcSection) == FALSE

\* if (!funcSection) continue;
SkipFile(funcSection) == funcSection = <<>>

\* path.basename(file, ext) for a name without directory separators
Basename(file, ext) ==
    IF file = ext THEN <<>>
    ELSE IF EndsWith(file, ext) THEN SubSeq(file, 1, Len(file) - Len(ext))
    ELSE file

---------------------------------------------------------------------------
(* The registry and loadMapFiles. *)

\* new Map()
EmptyMap == [x \in {} |-> <<>>]

\* Map.prototype.set
MapSet(reg, k, v) == [x \in (DOMAIN reg) \cup {k} |-> IF x = k THEN v ELSE reg[x]]

\* as Clear, clearing nothing
ClearNothing(reg) == reg

\* libFunctions.clear()
Clear(reg) == EmptyMap

\* file.endsWith(".map")
IsMapFile(file) == EndsWith(file, Ext)

\* the for loop over fs.readdirSync(mapDir), in the order the directory is
\* enumerated; readFileSync throws on an unreadable entry and nothing catches it
RECURSIVE LoadEntries(_, _, _)
LoadEntries(order, fs, reg) ==
    IF order = <<>> THEN [reg |-> reg, threw |-> FALSE]
    ELSE LET file == Head(order)
             funcSection == FuncSection(fs[file].content)
         IN  IF ~IsMapFile(file) THEN LoadEntries(Tail(order), fs, reg)
             ELSE IF ~fs[file].readable THEN [reg |-> reg, threw |-> TRUE]
             ELSE IF SkipFile(funcSection) THEN LoadEntries(Tail(order), fs, reg)
             ELSE LoadEntries(Tail(order), fs,
                      MapSet(reg, Basename(file, Ext),
                             ParseLines(Split(funcSection, NL))))

\* as LoadMapFiles, testing for the directory before clearing
LoadMapFilesClearLate(reg, present, fs, order) ==
    IF ~present THEN [reg |-> reg, threw |-> FALSE]
    ELSE LoadEntries(order, fs, Clear(reg))

\* loadMapFiles(): what it leaves in libFunctions and whether it threw
LoadMapFiles(reg, present, fs, order) ==
    LET cleared == Clear(reg)
    IN  IF ~present THEN [reg |-> cleared, threw |-> FALSE]
        ELSE LoadEntries(order, fs, cleared)

\* the orders in which readdirSync may list the entries S
Orders(S) ==
    {o \in [1..Cardinality(S) -> S] : \A i, j \in DOMAIN o : o[i] = o[j] => i = j}

\* getMapDir() is non-null and fs.existsSync(mapDir)
MapDirPresent == rootOpen /\ dirExists

---------------------------------------------------------------------------
(* The query providers registered by activate(). *)

\* /^\s*using\s+/.test(lineText), required to reach the end of the text
UsingTestAnchored(lineText) ==
    LET i == RunEnd(lineText, 1, SpaceChars)
        j == RunEnd(lineText, i + Len(Using), SpaceChars)
    IN  /\ OccursAt(lineText, Using, i)
        /\ At(lineText, i + Len(Using)) \in SpaceChars
        /\ j = Len(lineText) + 1

\* /^\s*using\s+/.test(lineText)
UsingTest(lineText) ==
    LET i == RunEnd(lineText, 1, SpaceChars)
    IN  /\ OccursAt(lineText, Using, i)
        /\ At(lineText, i + Len(Using)) \in SpaceChars

\* the first provider's provideCompletionItems: the library names, as a set
\* (the insertion order of the Map is not modelled)
LibraryItems(reg, lineText) ==
    IF UsingTest(lineText) THEN DOMAIN reg ELSE {}

\* the index where the run of \w characters that ends at index e starts
WordRunStart(s, e) ==
    CHOOSE i \in 1..(e + 1) :
        /\ \A k \in i..e : s[k] \in WordChars
        /\ At(s, i - 1) \notin WordChars

\* lineText.match(/(\w+)\.(\w*)$/)
MemberMatch(lineText) ==
    LET n == Len(lineText)
        p == WordRunStart(lineText, n)     \* (\w*)$
        l == WordRunStart(lineText, p - 2) \* (\w+)
    IN  IF p >= 3 /\ lineText[p - 1] = "." /\ lineText[p - 2] \in WordChars
        THEN [matched |-> TRUE,
              libName |-> SubSeq(lineText, l, p - 2),
              prefix |-> SubSeq(lineText, p, n)]
        ELSE NoMatch

\* `${fn.name}(${argText}) -> ${fn.returnType}`
Signature(fn, argText) ==
    fn.name \o <<"(">> \o argText \o <<")", " ", "-", ">", " ">> \o fn.returnType

\* the second provider's provideCompletionItems
MemberItems(reg, lineText) ==
    LET m == MemberMatch(lineText)
    IN  IF ~m.matched THEN <<>>
        ELSE IF m.libName \notin DOMAIN reg THEN <<>>
        ELSE LET hits == SelectSeq(reg[m.libName],
                                   LAMBDA fn : StartsWith(fn.name, m.prefix))
             IN  [i \in 1..Len(hits) |->
                    [label |-> hits[i].name,
                     detail |-> m.libName \o <<" ","l","i","b","r","a","r","y">>,
                     insertText |-> hits[i].name,
                     documentation |-> Signature(hits[i], hits[i].argType)]]

\* the third provider's provideCompletionItems
KeywordItems == ARX_KEYWORDS

\* a match of (\w+)\.(\w+)\( starts at index i of text
CallAt(text, i) ==
    LET r == RunEnd(text, i, WordChars)
        q == RunEnd(text, r + 1, WordChars)
    IN  /\ At(text, i) \in WordChars
        /\ At(text, r) = "."
        /\ q > r + 1
        /\ At(text, q) = "("

\* the groups of the match of (\w+)\.(\w+)\( that starts at index i
CallGroups(text, i) ==
    LET r == RunEnd(text, i, WordChars)
        q == RunEnd(text, r + 1, WordChars)
    IN  [matched |-> TRUE,
         libName |-> SubSeq(text, i, r - 1),
         funcName |-> SubSeq(text, r + 1, q - 1),
         open |-> q]

\* textUntilPos.match(/(\w+)\.(\w+)\(/): without the g flag, the leftmost match
CallMatch(text) ==
    LET starts == {i \in 1..Len(text) : CallAt(text, i)}
    IN  IF starts = {} THEN NoMatch
        ELSE CallGroups(text, CHOOSE i \in starts : \A j \in starts : i <= j)

\* funcs.find(f => f.name === funcName): the index of the first, 0 if none
FindFunction(funcs, funcName) ==
    LET hits == {i \in 1..Len(funcs) : funcs[i].name = funcName}
    IN  IF hits = {} THEN 0 ELSE CHOOSE i \in hits : \A j \in hits : i <= j

\* fn.argType ? fn.argType.split(",").map(a => a.trim()) : []
ArgsOf(fn) ==
    IF fn.argType = <<>> THEN <<>>
    ELSE LET parts == Split(fn.argType, <<",">>)
         IN  [i \in 1..Len(parts) |-> Trim(parts[i])]

\* (textUntilPos.match(/,/g) || []).length
CommaCount(text) == Cardinality({i \in 1..Len(text) : text[i] = ","})

\* as ActiveParameter, without the clamp
ActiveParameterUnclamped(commaCount, nargs) == commaCount

\* Math.min(commaCount, args.length - 1)
ActiveParameter(commaCount, nargs) == Min(commaCount, nargs - 1)

NoHelp == [found |-> FALSE]

\* the help built for function fn of library libName
HelpFor(libName, fn, textUntilPos) ==
    LET args == ArgsOf(fn)
    IN  [found |-> TRUE,
         label |-> Signature(fn, Join(args, <<",", " ">>)),
         documentation |-> <<"F","r","o","m"," ","l","i","b","r","a","r","y",":"," ">>
                              \o libName,
         parameters |-> args,
         activeSignature |-> 0,
         activeParameter |-> ActiveParameter(CommaCount(textUntilPos), Len(args))]

\* provideSignatureHelp(document, position)
SignatureHelp(reg, line, character) ==
    LET textUntilPos == Slice0(line, character)
        m == CallMatch(textUntilPos)
    IN  IF ~m.matched THEN NoHelp
        ELSE IF m.libName \notin DOMAIN reg THEN NoHelp
        ELSE LET funcs == reg[m.libName]
                 k == FindFunction(funcs, m.funcName)
             IN  IF k = 0 THEN NoHelp
                 ELSE HelpFor(m.libName, funcs[k], textUntilPos)

---------------------------------------------------------------------------
(* The bounded universe: directory entries, descriptor texts, editor lines. *)

\* descriptor texts of TextCatalogue a directory entry may hold
NumTexts == 3

\* lines, of LineCatalogue, of a descriptor text given to the parser alone
MaxLines == 4

\* fragments, of FragmentCatalogue, of an editor line
MaxFrags == 3

NameM == <<"m",".","m","a","p">>
NameK == <<"k",".","m","a","p">>
NameT == <<"m",".","t","x","t">>
FileNames == {NameM, NameK, NameT}

LibM == <<"m">>
LibK == <<"k">>

DeclF   == <<"f",":","i",",","j"," ","="," ","g"," ",">"," ","i">>
DeclH   == <<"h",":","i","=","c",">","j">>
Comment == <<"#"," ","x">>
NoTypes == <<"z",":"," ","="," ","g"," ",">"," ","i">>
Remark  == <<"#"," ">> \o Marker

TextCatalogue == <<
    Marker \o NL \o DeclF \o NL \o NoTypes \o NL \o DeclH \o NL, \* two functions
    DeclF \o NL,                                                  \* no marker
    Marker \o NL \o Comment \o NL,                                \* no declaration
    Comment \o NL \o Marker,                                      \* nothing after the marker
    Marker \o NL \o DeclH \o NL \o Remark \o NL \o DeclF \o NL,   \* marker twice
    Marker \o Marker \o NL \o DeclF \o NL >>                      \* marker twice, adjacent

Texts == {TextCatalogue[i] : i \in 1..Min(NumTexts, Len(TextCatalogue))}

\* what an entry may hold: any text for a descriptor, and for another file the
\* text it would be worst to load
TextsOf(n) == IF EndsWith(n, Ext) THEN Texts ELSE {TextCatalogue[1]}

Readable(text) == [readable |-> TRUE, content |-> text]
Unreadable == [readable |-> FALSE, content |-> <<>>]

LineCatalogue == <<Marker, DeclF, DeclH, Remark, NoTypes>>

\* all sequences over 1..k of length at most n
RECURSIVE Tuples(_, _)
Tuples(k, n) ==
    IF n = 0 THEN {<<>>}
    ELSE LET shorter == Tuples(k, n - 1)
         IN  shorter \cup {Append(t, i) : t \in shorter, i \in 1..k}

\* the texts made of at most MaxLines catalogue lines, one per line
ParseTexts ==
    {Join([i \in 1..Len(t) |-> LineCatalogue[t[i]]], NL) :
        t \in Tuples(Len(LineCatalogue), MaxLines)}

FragmentCatalogue == <<
    <<"u","s","i","n","g"," ">>,
    <<"m",".","f","(">>,
    <<"k",".","h","(">>,
    <<"1",",">>,
    <<" ">>,
    <<"m",".">> >>

\* the editor lines made of at most MaxFrags catalogue fragments
Lines ==
    {Join([i \in 1..Len(t) |-> FragmentCatalogue[t[i]]], <<>>) :
        t \in Tuples(Len(FragmentCatalogue), MaxFrags)}

NoQuery == [provider |-> "none"]
NoAnswer == [none |-> TRUE]

---------------------------------------------------------------------------
(* The state machine. *)

Init ==
    /\ rootOpen \in BOOLEAN
    /\ dirExists \in BOOLEAN
    /\ rootOpen \/ ~dirExists
    /\ files = EmptyMap
    /\ libFunctions = EmptyMap
    /\ watching = FALSE
    /\ events = {}
    /\ activation = "none"
    /\ threw = FALSE
    /\ fresh = FALSE
    /\ dropped = FALSE
    /\ query = NoQuery
    /\ answer = NoAnswer

\* fs.watch reports a change of entry n of the watched directory
Notify(names) == IF watching THEN events \cup names ELSE events

Remove(fs, n) == [x \in (DOMAIN fs) \ {n} |-> fs[x]]

Environment(fs, ev) ==
    /\ files' = fs
    /\ events' = ev
    /\ fresh' = FALSE
    /\ dropped' = FALSE
    /\ UNCHANGED <<rootOpen, libFunctions, watching, activation, threw, query, answer>>

CreateDir ==
    /\ rootOpen /\ ~dirExists
    /\ dirExists' = TRUE
    /\ Environment(EmptyMap, events)

\* the directory goes away (removed or renamed) with all its entries; the
\* watcher dies with it
RemoveDir ==
    /\ dirExists
    /\ dirExists' = FALSE
    /\ files' = EmptyMap
    /\ watching' = FALSE
    /\ fresh' = FALSE
    /\ dropped' = FALSE
    /\ UNCHANGED <<rootOpen, libFunctions, events, activation, threw, query, answer>>

\* an entry is created or rewritten
WriteFile ==
    \E n \in FileNames : \E t \in TextsOf(n) :
        /\ dirExists
        /\ dirExists' = dirExists
        /\ Environment(MapSet(files, n, Readable(t)), Notify({n}))

\* an entry becomes one that readFileSync fails on
SpoilFile ==
    \E n \in FileNames :
        /\ dirExists
        /\ dirExists' = dirExists
        /\ Environment(MapSet(files, n, Unreadable), Notify({n}))

DeleteFile ==
    \E n \in DOMAIN files :
        /\ dirExists' = dirExists
        /\ Environment(Remove(files, n), Notify({n}))

RenameFile ==
    \E a \in DOMAIN files : \E b \in FileNames \ {a} :
        /\ dirExists' = dirExists
        /\ Environment(MapSet(Remove(files, a), b, files[a]), Notify({a, b}))

\* as WatchInstalled, attaching the watcher whether or not the directory exists
WatchInstalledAlways(present) == TRUE

\* watchMapFiles(): a watcher is attached iff the directory exists
WatchInstalled(present) == present

\* activate(context): loadMapFiles(); watchMapFiles(); then the providers are
\* registered. An exception of loadMapFiles() ends activate() there.
Activate ==
    /\ activation = "none"
    /\ \E order \in Orders(DOMAIN files) :
         \E r \in {LoadMapFiles(libFunctions, MapDirPresent, files, order)} :
            /\ libFunctions' = r.reg
            /\ threw' = r.threw
            /\ watching' = IF r.threw THEN FALSE ELSE WatchInstalled(MapDirPresent)
            /\ activation' = IF r.threw THEN "failed"
                             ELSE IF MapDirPresent THEN "present" ELSE "absent"
            /\ fresh' = TRUE
            /\ dropped' = ~((DOMAIN libFunctions) \subseteq (DOMAIN r.reg))
            /\ UNCHANGED <<rootOpen, dirExists, files, events, query, answer>>

\* the fs.watch callback, on a name that ends with ".map"
WatcherReload ==
    \E filename \in events :
        /\ IsMapFile(filename)
        /\ \E order \in Orders(DOMAIN files) :
             \E r \in {LoadMapFiles(libFunctions, MapDirPresent, files, order)} :
                /\ events' = events \ {filename}
                /\ libFunctions' = r.reg
                /\ threw' = r.threw
                /\ fresh' = TRUE
                /\ dropped' = ~((DOMAIN libFunctions) \subseteq (DOMAIN r.reg))
                /\ UNCHANGED <<rootOpen, dirExists, files, watching, activation,
                               query, answer>>

\* the fs.watch callback, on any other name
WatcherIgnore ==
    \E filename \in events :
        /\ ~IsMapFile(filename)
        /\ events' = events \ {filename}
        /\ UNCHANGED <<rootOpen, dirExists, files, libFunctions, watching,
                       activation, threw, fresh, dropped, query, answer>>

Registered == activation \in {"present", "absent"}

\* the variables no provider writes
loaderVars == <<rootOpen, dirExists, files, libFunctions, watching, events,
                activation, threw, fresh, dropped>>

\* the host hands one request at a time to a registered provider
Ready == Registered /\ query = NoQuery

\* the host takes the answer
Answered ==
    /\ query # NoQuery
    /\ query' = NoQuery
    /\ answer' = NoAnswer
    /\ UNCHANGED loaderVars

ProvideLibraryNames ==
    /\ Ready
    /\ \E line \in Lines : \E character \in 0..Len(line) :
        /\ query' = [provider |-> "library", line |-> line, character |-> character]
        /\ answer' = [names |-> LibraryItems(libFunctions, line)]
    /\ UNCHANGED loaderVars

ProvideMembers ==
    /\ Ready
    /\ \E line \in Lines :
        /\ query' = [provider |-> "member", line |-> line]
        /\ answer' = [items |-> MemberItems(libFunctions, line)]
    /\ UNCHANGED loaderVars

ProvideKeywords ==
    /\ Ready
    /\ query' = [provider |-> "keyword"]
    /\ answer' = [keywords |-> KeywordItems]
    /\ UNCHANGED loaderVars

ProvideSignatureHelp ==
    /\ Ready
    /\ \E line \in Lines : \E character \in 0..Len(line) :
        /\ query' = [provider |-> "signature", line |-> line, character |-> character]
        /\ answer' = SignatureHelp(libFunctions, line, character)
    /\ UNCHANGED loaderVars

\* the loader and the watcher against a changing directory
Next ==
    \/ CreateDir
    \/ RemoveDir
    \/ WriteFile
    \/ SpoilFile
    \/ DeleteFile
    \/ RenameFile
    \/ Activate
    \/ WatcherReload
    \/ WatcherIgnore

Spec == Init /\ [][Next]_vars

\* the parser alone: one descriptor file, every text of ParseTexts
InitParse ==
    /\ rootOpen = TRUE
    /\ dirExists = TRUE
    /\ \E t \in ParseTexts : files = MapSet(EmptyMap, NameM, Readable(t))
    /\ libFunctions = EmptyMap
    /\ watching = FALSE
    /\ events = {}
    /\ activation = "none"
    /\ threw = FALSE
    /\ fresh = FALSE
    /\ dropped = FALSE
    /\ query = NoQuery
    /\ answer = NoAnswer

NextParse == Activate

SpecParse == InitParse /\ [][NextParse]_vars

\* the directories of the query runs: m.map and k.map, each absent or a text
QueryDirs ==
    UNION {[S -> {Readable(t) : t \in Texts}] : S \in SUBSET {NameM, NameK}}

\* the providers over every registry one load can build
InitQuery ==
    /\ rootOpen = TRUE
    /\ dirExists = TRUE
    /\ files \in QueryDirs
    /\ libFunctions = EmptyMap
    /\ watching = FALSE
    /\ events = {}
    /\ activation = "none"
    /\ threw = FALSE
    /\ fresh = FALSE
    /\ dropped = FALSE
    /\ query = NoQuery
    /\ answer = NoAnswer

NextQuery ==
    \/ Activate
    \/ ProvideLibraryNames
    \/ ProvideMembers
    \/ ProvideKeywords
    \/ ProvideSignatureHelp
    \/ Answered

SpecQuery == InitQuery /\ [][NextQuery]_vars

---------------------------------------------------------------------------
(* What the claims speak of. *)

\* the function names the catalogue texts declare
ProbeFunctions == {<<"f">>, <<"h">>}

\* the library names of the catalogue entries
ProbeLibraries == {LibM, LibK}

\* the entries of the directory whose name ends with ".map"
MapEntries == {n \in DOMAIN files : EndsWith(n, Ext)}

\* the filename stem of a ".map" entry
Stem(n) == SubSeq(n, 1, Len(n) - Len(Ext))

\* index i of text starts a line, or follows a marker
DeclStart(text, i) ==
    \/ i = 1
    \/ text[i - 1] = "\n"
    \/ OccursAt(text, Marker, i - Len(Marker))

\* the text from index i up to the end of its line
RestOfLine(text, i) ==
    LET j == IndexFrom(text, NL, i)
    IN  SubSeq(text, i, IF j = 0 THEN Len(text) ELSE j - 1)

\* record fn is declared somewhere in text
DeclaredIn(fn, text) ==
    \E i \in 1..Len(text) :
        /\ DeclStart(text, i)
        /\ DeclMatch(RestOfLine(text, i)).matched
        /\ ToLibFunction(DeclMatch(RestOfLine(text, i))) = fn

\* no query names library lib
Unknown(lib) ==
    /\ lib \notin LibraryItems(libFunctions, Using \o <<" ">>)
    /\ MemberItems(libFunctions, lib \o <<".">>) = <<>>
    /\ \A f \in ProbeFunctions :
          LET line == lib \o <<".">> \o f \o <<"(">>
          IN  SignatureHelp(libFunctions, line, Len(line)) = NoHelp

\* C1: right after a reload the registry holds no library whose <library>.map
\* is absent from the directory and no function that file does not declare, and
\* no query returns a library whose file is gone.
NoStaleEntries ==
    fresh =>
        /\ \A lib \in DOMAIN libFunctions :
              /\ dirExists
              /\ (lib \o Ext) \in DOMAIN files
              /\ \A i \in 1..Len(libFunctions[lib]) :
                    DeclaredIn(libFunctions[lib][i], files[lib \o Ext].content)
        /\ \A lib \in ProbeLibraries :
              (lib \o Ext) \notin DOMAIN files => Unknown(lib)

\* a watcher reload has just dropped m, whose file is gone, and kept k
StaleDropped ==
    /\ fresh /\ dropped /\ activation = "present"
    /\ NameM \notin DOMAIN files
    /\ LibM \notin DOMAIN libFunctions
    /\ LibK \in DOMAIN libFunctions
    /\ Len(libFunctions[LibK]) = 2

\* the section of a text is there and not empty
HasSection(text) ==
    LET i == IndexFrom(text, Marker, 1)
    IN  /\ i > 0
        /\ i + Len(Marker) <= Len(text)
        /\ ~OccursAt(text, Marker, i + Len(Marker))

\* what a readable descriptor contributes
RecordsOf(text) == ParseLines(Split(FuncSection(text), NL))

\* C2: a read failure on one descriptor is isolated: the reload does not
\* throw, and every other descriptor is parsed and installed.
ReadFailureIsolated ==
    fresh =>
        /\ ~threw
        /\ \A n \in MapEntries :
              (files[n].readable /\ HasSection(files[n].content)) =>
                  /\ Stem(n) \in DOMAIN libFunctions
                  /\ libFunctions[Stem(n)] = RecordsOf(files[n].content)
        /\ \A n \in MapEntries :
              ~files[n].readable => Stem(n) \notin DOMAIN libFunctions

\* C6, as stated: after a reload without a read failure the registry keys are
\* the stems of all ".map" entries.
KeysAreAllStems ==
    (fresh /\ ~threw) => DOMAIN libFunctions = {Stem(n) : n \in MapEntries}

\* C6, amended: after a reload without a read failure the registry keys are the
\* stems of the ".map" entries that have a non-empty section after the first
\* marker; such an entry without a matching line is installed with no records.
KeysAreStemsWithSection ==
    (fresh /\ ~threw) =>
        /\ DOMAIN libFunctions =
              {Stem(n) : n \in {e \in MapEntries : HasSection(files[e].content)}}
        /\ \A n \in MapEntries :
              files[n].content = TextCatalogue[3] => libFunctions[Stem(n)] = <<>>

\* a reload saw m.map without a marker, k.map with a section that declares
\* nothing, and a file that is no descriptor
MixedDirectoryLoaded ==
    /\ fresh /\ ~threw
    /\ DOMAIN files = {NameM, NameK, NameT}
    /\ files[NameM] = Readable(TextCatalogue[2])
    /\ files[NameK] = Readable(TextCatalogue[3])
    /\ DOMAIN libFunctions = {LibK}

\* the registry a directory yields when every read succeeds
Derived(fs) ==
    [lib \in {Stem(n) : n \in {e \in DOMAIN fs :
                 EndsWith(e, Ext) /\ fs[e].readable /\ HasSection(fs[e].content)}}
        |-> RecordsOf(fs[lib \o Ext].content)]

\* fs without the entries listed from index k on
Before(fs, order, k) == [n \in {order[i] : i \in 1..(k - 1)} |-> fs[n]]

\* a step that runs loadMapFiles(): activate(), or the watcher callback on a
\* name that ends with ".map"
ReloadStep ==
    /\ fresh'
    /\ \/ activation = "none" /\ activation' # "none"
       \/ \E f \in events : IsMapFile(f) /\ events' = events \ {f}

\* C9, as stated, on the reloads in which no read fails: the registry is
\* replaced by what the directory yields, or, the directory being absent, is
\* left as it was.
ReplacedOrUntouched ==
    [][(ReloadStep /\ ~threw') =>
          IF MapDirPresent THEN libFunctions' = Derived(files)
          ELSE libFunctions' = libFunctions]_vars

\* C9, amended: a reload leaves the registry empty when the directory is
\* absent, holding what the directory yields when every read succeeds, and
\* holding what the entries listed before the failing one yield when a read
\* fails.
ReplacedOrEmptied ==
    [][ReloadStep =>
          IF ~MapDirPresent THEN libFunctions' = EmptyMap /\ ~threw'
          ELSE IF ~threw' THEN libFunctions' = Derived(files)
          ELSE \E order \in Orders(DOMAIN files) : \E k \in DOMAIN order :
                  /\ EndsWith(order[k], Ext)
                  /\ ~files[order[k]].readable
                  /\ libFunctions' = Derived(Before(files, order, k))]_vars

\* a watcher reload found the directory gone and emptied a registry that held
\* libraries
EmptiedWithoutDirectory ==
    /\ fresh /\ dropped /\ ~threw
    /\ ~MapDirPresent
    /\ activation = "present"
    /\ libFunctions = EmptyMap

\* C10: when the directory is absent at activation no watcher is installed and
\* no reload follows: the registry stays empty and every query answers nothing,
\* whatever is created afterwards.
NeverPickedUp ==
    activation = "absent" =>
        /\ ~watching
        /\ events = {}
        /\ libFunctions = EmptyMap
        /\ \A lib \in ProbeLibraries : Unknown(lib)

\* the directory and a valid m.map were created after such an activation
CreatedAfterActivation ==
    /\ activation = "absent"
    /\ MapDirPresent
    /\ NameM \in DOMAIN files
    /\ files[NameM] = Readable(TextCatalogue[1])

\* the text after the first marker, to the end of the file
AfterFirstMarker(text) ==
    LET i == IndexFrom(text, Marker, 1)
    IN  IF i = 0 THEN <<>> ELSE SubSeq(text, i + Len(Marker), Len(text))

\* C7: the records installed for a text with a marker are those of every
\* matching line after the first marker, in order, whatever lines that do not
\* match (a line that holds the marker again included) lie in between.
EveryMatchingLineRecorded ==
    (fresh /\ LibM \in DOMAIN libFunctions) =>
        libFunctions[LibM] =
            ParseLines(Split(AfterFirstMarker(files[NameM].content), NL))

\* the text before the cursor of the last query
TextUntilPos == Slice0(query.line, query.character)

\* the commas of text after index open
CommasAfter(text, open) ==
    Cardinality({i \in (open + 1)..Len(text) : text[i] = ","})

\* C3: the active argument index counts only the commas between the open
\* parenthesis of the matched call and the cursor.
CountsCommasInsideCall ==
    (query.provider = "signature" /\ answer.found) =>
        answer.activeParameter =
            Min(CommasAfter(TextUntilPos, CallMatch(TextUntilPos).open),
                Len(answer.parameters) - 1)

\* C4: the active argument index of every signature help lies in
\* 0..(number of parameters - 1), and is 0 for a function without parameters.
ActiveParameterInRange ==
    (query.provider = "signature" /\ answer.found) =>
        IF Len(answer.parameters) >= 1
        THEN answer.activeParameter \in 0..(Len(answer.parameters) - 1)
        ELSE answer.activeParameter = 0

\* a help whose comma count was clamped to the last parameter
ClampedHelp ==
    /\ query.provider = "signature"
    /\ answer.found
    /\ CommaCount(TextUntilPos) > Len(answer.parameters) - 1
    /\ answer.activeParameter = Len(answer.parameters) - 1

\* text is optional whitespace, "using" and whitespace, and nothing else
KeywordContext(text) ==
    \E i \in 0..Len(text) :
        /\ \A k \in 1..i : text[k] \in SpaceChars
        /\ OccursAt(text, Using, i + 1)
        /\ i + Len(Using) < Len(text)
        /\ \A k \in (i + Len(Using) + 1)..Len(text) : text[k] \in SpaceChars

\* text begins with optional whitespace, "using" and a whitespace character
KeywordPrefix(text) ==
    \E i \in 0..Len(text) :
        /\ \A k \in 1..i : text[k] \in SpaceChars
        /\ OccursAt(text, Using, i + 1)
        /\ At(text, i + Len(Using) + 1) \in SpaceChars

\* C5, as stated: the library names are returned exactly when the text up to
\* the cursor is optional whitespace, "using" and whitespace.
LibraryNamesInKeywordContext ==
    query.provider = "library" =>
        answer.names = IF KeywordContext(TextUntilPos) THEN DOMAIN libFunctions ELSE {}

\* C5, amended: the library names are returned exactly when the whole line
\* begins with optional whitespace, "using" and a whitespace character,
\* whatever follows and wherever the cursor is.
LibraryNamesOnUsingLine ==
    query.provider = "library" =>
        answer.names = IF KeywordPrefix(query.line) THEN DOMAIN libFunctions ELSE {}

\* library names returned with more than the keyword before the cursor
NamesOutsideKeywordContext ==
    /\ query.provider = "library"
    /\ answer.names # {}
    /\ query.character = Len(query.line)
    /\ ~KeywordContext(TextUntilPos)

\* the last whole call identifier.identifier( of text
CallMatchLast(text) ==
    LET starts == {i \in 1..Len(text) :
                      CallAt(text, i) /\ At(text, i - 1) \notin WordChars}
    IN  IF starts = {} THEN NoMatch
        ELSE CallGroups(text, CHOOSE i \in starts : \A j \in starts : j <= i)

\* the help for the last call before the cursor
HelpAtLastCall(reg, line, character) ==
    LET text == Slice0(line, character)
        m == CallMatchLast(text)
    IN  IF ~m.matched THEN NoHelp
        ELSE IF m.libName \notin DOMAIN reg THEN NoHelp
        ELSE LET k == FindFunction(reg[m.libName], m.funcName)
             IN  IF k = 0 THEN NoHelp
                 ELSE HelpFor(m.libName, reg[m.libName][k], text)

\* C8: with more than one call before the cursor, signature help answers for
\* the last one.
ResolvesLastCall ==
    query.provider = "signature" =>
        answer = HelpAtLastCall(libFunctions, query.line, query.character)

====
